---- MODULE Spec2Model ----
(***************************************************************************)
(* Donation tracking web application (Flask + SQLite).                     *)
(*                                                                         *)
(* Two application variants share the store file charity.sqlite:           *)
(*   variant "A": src/Charity-Project/app.py (donate, list, edit, delete)  *)
(*   variant "B": src/app.py                 (donate, list)                *)
(*                                                                         *)
(* The store is the SQLite file: whether the donation table exists, its    *)
(* rows, and the AUTOINCREMENT high-water mark kept in sqlite_sequence.    *)
(* Every request handler is one action; the accessor methods it calls are  *)
(* operators that return the new store, the returned rows, the exception   *)
(* raised (if any) and the number of connections the method left open.     *)
(***************************************************************************)
EXTENDS Integers, Sequences, FiniteSets, TLC

(***************************************************************************)
(* Bounds of the model.                                                    *)
(***************************************************************************)
\* rows inserted over the whole life of the store file
MaxInserts == 3
\* ticks of the wall clock behind CURRENT_TIMESTAMP
MaxClock == 1
\* largest value of an SQLite INTEGER (2^63 - 1 in the build), scaled down
MaxSqliteInt == 5

(***************************************************************************)
(* Values.  A Python value that reaches the store is a str, a float or     *)
(* None; a column value is TEXT, REAL or NULL.  Text is a sequence of      *)
(* characters; a REAL is kept in tenths (one fractional digit).            *)
(***************************************************************************)
NULL == [t |-> "null", s |-> <<>>, n |-> 0]

Text(s) == [t |-> "text", s |-> s, n |-> 0]

Real(tenths) == [t |-> "real", s |-> <<>>, n |-> tenths]

DigitVal(c) ==
    CASE c = "0" -> 0 [] c = "1" -> 1 [] c = "2" -> 2 [] c = "3" -> 3
      [] c = "4" -> 4 [] c = "5" -> 5 [] c = "6" -> 6 [] c = "7" -> 7
      [] c = "8" -> 8 [] c = "9" -> 9 [] OTHER -> -1

IsDigits(s) == Len(s) > 0 /\ \A i \in 1..Len(s) : DigitVal(s[i]) >= 0

RECURSIVE DigitsVal(_)
DigitsVal(s) ==
    IF Len(s) = 0 THEN 0
    ELSE 10 * DigitsVal(SubSeq(s, 1, Len(s) - 1)) + DigitVal(s[Len(s)])

\* position of the decimal point in s, 0 when there is none
DotAt(s) ==
    IF \E i \in 1..Len(s) : s[i] = "."
    THEN CHOOSE i \in 1..Len(s) : s[i] = "." /\ \A j \in 1..(i - 1) : s[j] # "."
    ELSE 0

\* s is a well-formed numeric literal: digits, or digits "." digit
LooksNumeric(s) ==
    IF DotAt(s) = 0 THEN IsDigits(s)
    ELSE /\ IsDigits(SubSeq(s, 1, DotAt(s) - 1))
         /\ Len(s) = DotAt(s) + 1
         /\ DigitVal(s[Len(s)]) >= 0

NumericTenths(s) ==
    IF DotAt(s) = 0 THEN 10 * DigitsVal(s)
    ELSE 10 * DigitsVal(SubSeq(s, 1, DotAt(s) - 1)) + DigitVal(s[Len(s)])

\* Column affinity REAL: text that is a numeric literal becomes the number,
\* any other text is stored as the text it is; NULL stays NULL.
RealAffinity(v) ==
    IF v.t = "text" /\ LooksNumeric(v.s) THEN Real(NumericTenths(v.s)) ELSE v

\* sqlite3 binds a Python int as a 64-bit signed integer
FitsSqliteInt(i) == i <= MaxSqliteInt

(***************************************************************************)
(* request.form: a set of <<key, characters>> pairs, at most one per key.  *)
(***************************************************************************)
FormHas(form, key) == \E p \in form : p[1] = key

FormVal(form, key) == Text((CHOOSE p \in form : p[1] = key)[2])

\* request.form.get(key, None) with the default returned as ''
request_form_get_empty_default(form, key) ==
    IF FormHas(form, key) THEN FormVal(form, key) ELSE Text(<<>>)

\* request.form.get(key, None)
request_form_get(form, key) ==
    IF FormHas(form, key) THEN FormVal(form, key) ELSE NULL

\* request.form[key] read as request.form.get(key): never a 400
request_form_getitem_lenient(form, key) ==
    [bad_request |-> FALSE, val |-> request_form_get(form, key)]

\* request.form[key]: a missing key raises BadRequestKeyError (HTTP 400)
request_form_getitem(form, key) ==
    IF FormHas(form, key)
    THEN [bad_request |-> FALSE, val |-> FormVal(form, key)]
    ELSE [bad_request |-> TRUE, val |-> NULL]

(***************************************************************************)
(* The store: db = [exists, rows, seq].                                    *)
(***************************************************************************)
NoStore == [exists |-> FALSE, rows |-> {}, seq |-> 0]

Ids(rows) == {r.id : r \in rows}

MaxOf(S) == IF S = {} THEN 0 ELSE CHOOSE m \in S : \A x \in S : x <= m

\* rowid chosen as the number of rows plus one
NewRowidByCount(db) == Cardinality(db.rows) + 1

\* INTEGER PRIMARY KEY without AUTOINCREMENT: largest rowid in the table + 1
NewRowidNoAutoincrement(db) == MaxOf(Ids(db.rows)) + 1

\* INTEGER PRIMARY KEY AUTOINCREMENT: one more than the largest rowid the
\* table has ever held (sqlite_sequence) or holds now
NewRowid(db) == MaxOf(Ids(db.rows) \cup {db.seq}) + 1

\* Result of cursor.execute: the store after it, the rows it returns and the
\* exception it raised ("none" when it returned).
Executed(db, ret, raised) == [db |-> db, ret |-> ret, raised |-> raised]

\* Table scan of a rowid table: rows in descending rowid order
RECURSIVE ScanDescending(_)
ScanDescending(rows) ==
    IF rows = {} THEN <<>>
    ELSE LET r == CHOOSE x \in rows : \A y \in rows : y.id <= x.id
         IN  <<r>> \o ScanDescending(rows \ {r})

\* Table scan of a rowid table: the b-tree is walked in ascending rowid order
RECURSIVE Scan(_)
Scan(rows) ==
    IF rows = {} THEN <<>>
    ELSE LET r == CHOOSE x \in rows : \A y \in rows : x.id <= y.id
         IN  <<r>> \o Scan(rows \ {r})

(***************************************************************************)
(* cursor.execute of each statement the accessor issues.                   *)
(***************************************************************************)
\* CREATE TABLE IF NOT EXISTS donation (...)
ExecCreateTable(db) ==
    Executed(IF db.exists THEN db ELSE [exists |-> TRUE, rows |-> {}, seq |-> 0],
             <<>>, "none")

\* INSERT INTO donation (name, amount, project_name, notes) VALUES (?, ?, ?, ?)
\* id is the AUTOINCREMENT rowid, date is DEFAULT CURRENT_TIMESTAMP; name and
\* amount are NOT NULL; amount has REAL affinity.  The TEXT columns receive a
\* str or None, which TEXT affinity stores as given.
ExecInsert(db, name, amount, project_name, notes, now) ==
    IF ~db.exists THEN Executed(db, <<>>, "OperationalError")
    ELSE IF name = NULL \/ amount = NULL THEN Executed(db, <<>>, "IntegrityError")
    ELSE LET id  == NewRowid(db)
             row == [id |-> id, name |-> name, amount |-> RealAffinity(amount),
                     date |-> now, project_name |-> project_name, notes |-> notes]
         IN  Executed([exists |-> TRUE, rows |-> db.rows \cup {row},
                       seq |-> MaxOf({db.seq, id})], <<>>, "none")

\* SELECT * FROM donation;
ExecSelectAll(db) ==
    IF ~db.exists THEN Executed(db, <<>>, "OperationalError")
    ELSE Executed(db, Scan(db.rows), "none")

\* SELECT * FROM donation WHERE id = ?;
ExecSelectById(db, donation_id) ==
    IF ~db.exists THEN Executed(db, <<>>, "OperationalError")
    ELSE IF ~FitsSqliteInt(donation_id) THEN Executed(db, <<>>, "OverflowError")
    ELSE Executed(db, Scan({r \in db.rows : r.id = donation_id}), "none")

\* UPDATE donation SET every row (the WHERE clause left out)
ExecUpdateAllRows(db, donation_id, name, amount, project_name, notes) ==
    Executed([db EXCEPT !.rows =
                 {[r EXCEPT !.name = name, !.amount = RealAffinity(amount),
                            !.project_name = project_name, !.notes = notes]
                    : r \in db.rows}], <<>>, "none")

\* UPDATE donation SET name = ?, amount = ?, project_name = ?, notes = ?
\* WHERE id = ?
ExecUpdate(db, donation_id, name, amount, project_name, notes) ==
    IF ~db.exists THEN Executed(db, <<>>, "OperationalError")
    ELSE IF ~FitsSqliteInt(donation_id) THEN Executed(db, <<>>, "OverflowError")
    ELSE IF (\E r \in db.rows : r.id = donation_id) /\ (name = NULL \/ amount = NULL)
    THEN Executed(db, <<>>, "IntegrityError")
    ELSE Executed([db EXCEPT !.rows =
                      {IF r.id = donation_id
                       THEN [r EXCEPT !.name = name, !.amount = RealAffinity(amount),
                                      !.project_name = project_name, !.notes = notes]
                       ELSE r : r \in db.rows}], <<>>, "none")

\* DELETE FROM donation WHERE id = ?;
ExecDelete(db, donation_id) ==
    IF ~db.exists THEN Executed(db, <<>>, "OperationalError")
    ELSE IF ~FitsSqliteInt(donation_id) THEN Executed(db, <<>>, "OverflowError")
    ELSE Executed([db EXCEPT !.rows = {r \in db.rows : r.id # donation_id}],
                  <<>>, "none")

\* cursor.fetchone(): the first row, or None (the empty sequence)
fetchone(ret) == IF Len(ret) = 0 THEN <<>> ELSE <<ret[1]>>

(***************************************************************************)
(* SQLiteDatabase.  Every method is                                        *)
(*     conn = self.connect(); cursor.execute(...); conn.commit();          *)
(*     conn.close()                                                        *)
(* with no try/finally: when execute raises, the exception leaves the      *)
(* method before commit and close, and the connection it opened is still   *)
(* open (unclosed = 1).                                                    *)
(***************************************************************************)
connect == 1

Method(ex, ret) ==
    IF ex.raised # "none"
    THEN [db |-> ex.db, ret |-> <<>>, raised |-> ex.raised, unclosed |-> connect]
    ELSE [db |-> ex.db, ret |-> ret, raised |-> "none", unclosed |-> connect - 1]

\* a method that is never called, or does nothing
NoCall(db) == [db |-> db, ret |-> <<>>, raised |-> "none", unclosed |-> 0]

SQLiteDatabase_create_donation_table(db) == Method(ExecCreateTable(db), <<>>)

SQLiteDatabase_insert_donation(db, name, amount, project_name, notes, now) ==
    Method(ExecInsert(db, name, amount, project_name, notes, now), <<>>)

\* fetch_donations over a scan in descending rowid order
SQLiteDatabase_fetch_donations_reversed(db) ==
    IF db.exists THEN Method(Executed(db, <<>>, "none"), ScanDescending(db.rows))
    ELSE Method(ExecSelectAll(db), <<>>)

SQLiteDatabase_fetch_donations(db) ==
    Method(ExecSelectAll(db), ExecSelectAll(db).ret)

SQLiteDatabase_fetch_donation_by_id(db, donation_id) ==
    Method(ExecSelectById(db, donation_id), fetchone(ExecSelectById(db, donation_id).ret))

SQLiteDatabase_update_donation(db, donation_id, name, amount, project_name, notes) ==
    Method(ExecUpdate(db, donation_id, name, amount, project_name, notes), <<>>)

\* delete_donation without conn.commit(): close() discards the statement
SQLiteDatabase_delete_donation_uncommitted(db, donation_id) ==
    Method(Executed(db, <<>>, ExecDelete(db, donation_id).raised), <<>>)

SQLiteDatabase_delete_donation(db, donation_id) ==
    Method(ExecDelete(db, donation_id), <<>>)

\* SQLiteDatabase.__init__: variant A creates the table, variant B does not
SQLiteDatabase_init(v, db) ==
    IF v = "A" THEN SQLiteDatabase_create_donation_table(db) ELSE NoCall(db)

(***************************************************************************)
(* DonationFactory, DonationFacade, DonationProxy.                         *)
(***************************************************************************)
DonationFactory_create_donation(name, amount, project_name, notes) ==
    [name |-> name, amount |-> amount, project_name |-> project_name, notes |-> notes]

\* a facade constructor that never creates the table
DonationFacade_init_no_create(v, db) == NoCall(db)

\* DonationFacade.__init__: variant B creates the table, variant A does not
DonationFacade_init(v, db) ==
    IF v = "B" THEN SQLiteDatabase_create_donation_table(db) ELSE NoCall(db)

DonationFacade_donate(db, name, amount, project_name, notes, now) ==
    LET donation == DonationFactory_create_donation(name, amount, project_name, notes)
    IN  SQLiteDatabase_insert_donation(db, donation.name, donation.amount,
                                       donation.project_name, donation.notes, now)

DonationFacade_view_donations(db) == SQLiteDatabase_fetch_donations(db)

DonationFacade_edit_donation(db, donation_id) ==
    SQLiteDatabase_fetch_donation_by_id(db, donation_id)

DonationFacade_update_donation(db, donation_id, name, amount, project_name, notes) ==
    SQLiteDatabase_update_donation(db, donation_id, name, amount, project_name, notes)

DonationFacade_delete_donation(db, donation_id) ==
    SQLiteDatabase_delete_donation(db, donation_id)

DonationProxy_donate(db, name, amount, project_name, notes, now) ==
    DonationFacade_donate(db, name, amount, project_name, notes, now)

DonationProxy_view_donations(db) == DonationFacade_view_donations(db)

(***************************************************************************)
(* State.                                                                  *)
(***************************************************************************)
VARIABLES
    variant,    \* which application runs: "A" or "B"
    pc,         \* module import: "start", "db_ready", then "serving"
    db,         \* the store file charity.sqlite
    clock,      \* CURRENT_TIMESTAMP
    request,    \* the request (or start-up step) handled last
    response,   \* its response: status and the rows handed to the template
    pre,        \* the store as it was before that request
    raised,     \* the exception the accessor method raised in it
    unclosed,   \* connections that method opened and had not closed on exit
    assigned,   \* history: every rowid the table has assigned, in order
    deleted     \* history: ids removed by /delete_donation in this run

vars == <<variant, pc, db, clock, request, response, pre, raised, unclosed,
          assigned, deleted>>

\* Submitted forms.  FormA omits the optional fields and its amount is
\* numeric text; FormB's amount is not a number.  The last two lack a
\* required field.
FormA == {<<"name", <<"a">> >>, <<"amount", <<"5", ".", "0">> >>}

FormB == {<<"name", <<"b">> >>, <<"amount", <<"x">> >>,
          <<"project_name", <<"w">> >>, <<"notes", <<"n">> >>}

FormNoName == {<<"amount", <<"5">> >>, <<"notes", <<"n">> >>}

FormNoAmount == {<<"name", <<"a">> >>}

Forms == {FormA, FormB, FormNoName, FormNoAmount}

\* ids in the URL: <int:id> accepts any run of digits, also one too large for
\* an SQLite INTEGER
UrlIds == (1..(MaxInserts + 1)) \cup {MaxSqliteInt + 1}

Req(route, method, id, form) ==
    [route |-> route, method |-> method, id |-> id, form |-> form]

Resp(status, donations) == [status |-> status, donations |-> donations]

\* A store file left by an earlier run: no file, an empty table, or one row.
PriorRow ==
    [id |-> 1, name |-> Text(<<"a">>), amount |-> Real(50), date |-> 0,
     project_name |-> NULL, notes |-> NULL]

InitStores ==
    { [store |-> NoStore, assigned |-> <<>>],
      [store |-> [exists |-> TRUE, rows |-> {}, seq |-> 0], assigned |-> <<>>],
      [store |-> [exists |-> TRUE, rows |-> {PriorRow}, seq |-> 1],
       assigned |-> <<1>>] }

Init ==
    /\ variant \in {"A", "B"}
    /\ pc = "start"
    /\ \E s \in InitStores : db = s.store /\ assigned = s.assigned
    /\ clock = 0
    /\ request = Req("none", "", 0, {})
    /\ response = Resp(0, <<>>)
    /\ pre = db
    /\ raised = "none"
    /\ unclosed = 0
    /\ deleted = {}

\* What every handler leaves behind: Flask turns an unhandled exception into
\* a 500 response.
Served(req, acc, status, donations) ==
    /\ request' = req
    /\ pre' = db
    /\ db' = acc.db
    /\ raised' = acc.raised
    /\ unclosed' = acc.unclosed
    /\ response' = IF acc.raised # "none" THEN Resp(500, <<>>)
                   ELSE Resp(status, donations)
    /\ UNCHANGED <<variant, clock>>

(***************************************************************************)
(* Module import.                                                          *)
(***************************************************************************)
\* db = DatabaseSingleton.get_instance()
get_instance ==
    /\ pc = "start"
    /\ pc' = "db_ready"
    /\ Served(Req("get_instance", "", 0, {}), SQLiteDatabase_init(variant, db), 0, <<>>)
    /\ UNCHANGED <<assigned, deleted>>

\* donation_facade = DonationFacade(db); donation_proxy = DonationProxy(...)
facade_init ==
    /\ pc = "db_ready"
    /\ pc' = "serving"
    /\ Served(Req("facade_init", "", 0, {}), DonationFacade_init(variant, db), 0, <<>>)
    /\ UNCHANGED <<assigned, deleted>>

(***************************************************************************)
(* Request handlers.                                                       *)
(***************************************************************************)
\* POST /donate (both variants)
donate ==
    /\ pc = "serving"
    /\ \E form \in Forms :
        LET name   == request_form_getitem(form, "name")
            amount == request_form_getitem(form, "amount")
            project_name == request_form_get(form, "project_name")
            notes  == request_form_get(form, "notes")
            acc    == DonationProxy_donate(db, name.val, amount.val, project_name,
                                           notes, clock)
            req    == Req("donate", "POST", 0, form)
        IN  IF name.bad_request \/ amount.bad_request
            THEN /\ Served(req, NoCall(db), 400, <<>>)
                 /\ UNCHANGED assigned
            ELSE /\ Len(assigned) < MaxInserts
                 /\ Served(req, acc, 200, <<>>)
                 /\ assigned' = IF acc.db.rows # db.rows
                                THEN Append(assigned, NewRowid(db)) ELSE assigned
    /\ UNCHANGED <<pc, deleted>>

\* GET /view_donations (both variants)
view_donations ==
    /\ pc = "serving"
    /\ LET acc == DonationProxy_view_donations(db)
       IN  Served(Req("view_donations", "GET", 0, {}), acc, 200, acc.ret)
    /\ UNCHANGED <<pc, assigned, deleted>>

\* GET|POST /edit_donation/<int:id> (variant A).  The template that renders
\* the GET page is not part of the sources: with donation = None it renders
\* (200) or fails (500).
edit_donation ==
    /\ pc = "serving"
    /\ variant = "A"
    /\ \E id \in UrlIds :
        \/ \E form \in Forms :
             LET name   == request_form_getitem(form, "name")
                 amount == request_form_getitem(form, "amount")
                 project_name == request_form_get(form, "project_name")
                 notes  == request_form_get(form, "notes")
                 acc    == DonationFacade_update_donation(db, id, name.val, amount.val,
                                                          project_name, notes)
                 req    == Req("edit_donation", "POST", id, form)
             IN  IF name.bad_request \/ amount.bad_request
                 THEN Served(req, NoCall(db), 400, <<>>)
                 ELSE Served(req, acc, 302, <<>>)
        \/ LET acc == DonationFacade_edit_donation(db, id)
           IN  \E status \in {200, 500} :
                 /\ (status = 500) => (acc.ret = <<>>)
                 /\ Served(Req("edit_donation", "GET", id, {}), acc, status, acc.ret)
    /\ UNCHANGED <<pc, assigned, deleted>>

\* GET /delete_donation/<int:id> (variant A)
delete_donation ==
    /\ pc = "serving"
    /\ variant = "A"
    /\ \E id \in UrlIds :
        LET acc == DonationFacade_delete_donation(db, id)
        IN  /\ Served(Req("delete_donation", "GET", id, {}), acc, 302, <<>>)
            /\ deleted' = IF acc.raised = "none" /\ id \in Ids(db.rows)
                          THEN deleted \cup {id} ELSE deleted
    /\ UNCHANGED <<pc, assigned>>

\* time passes
Tick ==
    /\ clock < MaxClock
    /\ clock' = clock + 1
    /\ UNCHANGED <<variant, pc, db, request, response, pre, raised, unclosed,
                   assigned, deleted>>

Next ==
    \/ get_instance
    \/ facade_init
    \/ donate
    \/ view_donations
    \/ edit_donation
    \/ delete_donation
    \/ Tick

Spec == Init /\ [][Next]_vars

(***************************************************************************)
(* Properties.                                                             *)
(***************************************************************************)
\* what GET /view_donations hands to its template for store d
Listing(d) == DonationProxy_view_donations(d).ret

Range(seq) == {seq[i] : i \in 1..Len(seq)}

\* position of x in seq, 0 when it is not there
Pos(seq, x) ==
    IF \E k \in 1..Len(seq) : seq[k] = x
    THEN CHOOSE k \in 1..Len(seq) : seq[k] = x /\ \A j \in 1..(k - 1) : seq[j] # x
    ELSE 0

\* the stored amount is the submitted one: the number the characters denote,
\* or the characters themselves when they denote no number
AmountMatches(stored, chars) ==
    IF LooksNumeric(chars)
    THEN stored.t = "real" /\ stored.n = NumericTenths(chars)
    ELSE stored.t = "text" /\ stored.s = chars

Submitted(key) == (CHOOSE p \in request.form : p[1] = key)[2]

\* C1: after a POST /donate carrying name and amount, the listing holds every
\* record listed before and exactly one new record; the new record has the
\* submitted name and amount (the amount as the number it denotes), and NULL
\* project_name / notes when those fields were omitted.
C1_DonateAddsOneRecord ==
    (request.route = "donate" /\ FormHas(request.form, "name")
                              /\ FormHas(request.form, "amount")) =>
        LET before == Range(Listing(pre))
            after  == Range(Listing(db))
            new    == after \ before
        IN  /\ response.status = 200
            /\ before \subseteq after
            /\ Len(Listing(db)) = Len(Listing(pre)) + 1
            /\ Cardinality(new) = 1
            /\ \A r \in new :
                 /\ r.name = Text(Submitted("name"))
                 /\ AmountMatches(r.amount, Submitted("amount"))
                 /\ ~FormHas(request.form, "project_name") => r.project_name = NULL
                 /\ FormHas(request.form, "project_name")
                      => r.project_name = Text(Submitted("project_name"))
                 /\ ~FormHas(request.form, "notes") => r.notes = NULL
                 /\ FormHas(request.form, "notes") => r.notes = Text(Submitted("notes"))

\* a donation without project_name and notes lands in a store that already
\* lists a record
C1_Witness ==
    /\ request.route = "donate"
    /\ request.form = FormA
    /\ response.status = 200
    /\ Len(Listing(pre)) >= 1
    /\ \E r \in db.rows \ pre.rows : r.project_name = NULL /\ r.notes = NULL

\* C2: a POST /donate lacking name or amount is answered 400 and the stored
\* donations are the same after it as before.
C2_MissingFieldCreatesNothing ==
    (request.route = "donate" /\ ~(FormHas(request.form, "name")
                                   /\ FormHas(request.form, "amount"))) =>
        /\ response.status = 400
        /\ db = pre
        /\ Listing(db) = Listing(pre)

C2_Witness ==
    /\ request.route = "donate"
    /\ ~FormHas(request.form, "name")
    /\ response.status = 400
    /\ pre.rows # {}

\* C3: a POST /edit_donation/<id> on an existing record keeps that record's
\* id and date and leaves every other stored record as it was.
C3_EditFrame ==
    (request.route = "edit_donation" /\ request.method = "POST"
                                     /\ request.id \in Ids(pre.rows)) =>
        /\ \A r \in pre.rows : r.id # request.id => r \in db.rows
        /\ Cardinality(db.rows) = Cardinality(pre.rows)
        /\ \A old \in pre.rows : old.id = request.id =>
             \E r \in db.rows : r.id = old.id /\ r.date = old.date

\* an edit, later than the insertion, that changed one of two stored records
C3_Witness ==
    /\ request.route = "edit_donation"
    /\ request.method = "POST"
    /\ response.status = 302
    /\ Cardinality(pre.rows) >= 2
    /\ db.rows # pre.rows
    /\ \E old \in pre.rows : old.id = request.id /\ old.date < clock

\* C4: once GET /delete_donation/<id> removed an existing record, no listing
\* holds that id and fetch_donation_by_id(id) returns no row, whatever
\* follows; the delete leaves all other records listed unchanged.
C4_DeletedStaysDeleted ==
    /\ \A i \in deleted :
         /\ \A k \in 1..Len(Listing(db)) : Listing(db)[k].id # i
         /\ SQLiteDatabase_fetch_donation_by_id(db, i).ret = <<>>
    /\ (request.route = "delete_donation" /\ request.id \in Ids(pre.rows)) =>
         /\ response.status = 302
         /\ Range(Listing(db)) = {r \in Range(Listing(pre)) : r.id # request.id}

\* a donation is accepted after a record was deleted
C4_Witness ==
    /\ deleted # {}
    /\ request.route = "donate"
    /\ response.status = 200
    /\ db.rows # pre.rows

\* C5: an edit or delete request (an edit submission carrying its required
\* fields) whose id matches no stored record is answered 404 and leaves the
\* store unchanged.
C5_UnknownIdIsNotFound ==
    (request.route \in {"edit_donation", "delete_donation"}
        /\ request.id \notin Ids(pre.rows)
        /\ (request.method = "POST" =>
              FormHas(request.form, "name") /\ FormHas(request.form, "amount"))) =>
        /\ response.status = 404
        /\ db = pre

\* C6: the listing is in ascending id order, which is the order of insertion
\* (oldest first), and an edit leaves the order of the listed ids as it was.
C6_ListingOrder ==
    LET L == Listing(db)
    IN  /\ (request.route = "edit_donation" /\ request.method = "POST") =>
             [k \in 1..Len(L) |-> L[k].id]
               = [k \in 1..Len(Listing(pre)) |-> Listing(pre)[k].id]
        /\ \A i, j \in 1..Len(L) : i < j =>
             /\ L[i].id < L[j].id
             /\ L[i].date <= L[j].date
             /\ Pos(assigned, L[i].id) < Pos(assigned, L[j].id)

\* the first of two listed records was edited
C6_Witness ==
    /\ request.route = "edit_donation"
    /\ request.method = "POST"
    /\ response.status = 302
    /\ db.rows # pre.rows
    /\ Len(Listing(db)) >= 2
    /\ Listing(db)[1].id = request.id

\* C7: no two stored donations share an id, and every stored donation has a
\* name and an amount that are not NULL.
C7_UniqueIdsRequiredFields ==
    /\ \A r1, r2 \in db.rows : r1.id = r2.id => r1 = r2
    /\ \A r \in db.rows : r.name # NULL /\ r.amount # NULL
                          /\ r.name.t # "null" /\ r.amount.t # "null"

\* two records are stored after a record was deleted
C7_Witness ==
    /\ Cardinality(db.rows) >= 2
    /\ deleted # {}

\* C8: when an accessor method returns or raises, no connection it opened is
\* still open.
C8_ConnectionReleased == unclosed = 0

\* C9: no statement issued through the facade meets a store without the
\* donation table: the table exists once the import has finished, and its
\* creation keeps the rows of a table that was already there.
C9_TableExistsBeforeUse ==
    /\ raised # "OperationalError"
    /\ pc = "serving" => db.exists
    /\ (request.route \in {"get_instance", "facade_init"} /\ pre.exists) => db = pre

\* variant B serves a donation on a store that started without the table
C9_Witness ==
    /\ variant = "B"
    /\ request.route = "donate"
    /\ response.status = 200
    /\ assigned = <<1>>
    /\ db.rows # {}

\* C10: the ids assigned to inserted donations strictly increase over the life
\* of the store, deleted ones included: a new id exceeds every id assigned
\* before and no deleted id is stored again.
C10_IdsNeverReused ==
    /\ \A i, j \in 1..Len(assigned) : i < j => assigned[i] < assigned[j]
    /\ Ids(db.rows) \subseteq Range(assigned)
    /\ deleted \cap Ids(db.rows) = {}
    /\ (request.route = "donate" /\ db.rows # pre.rows) =>
         \A r \in db.rows \ pre.rows :
            /\ r.id = assigned[Len(assigned)]
            /\ \A k \in 1..(Len(assigned) - 1) : assigned[k] < r.id

\* a donation is stored after the record with the largest id was deleted
C10_Witness ==
    /\ request.route = "donate"
    /\ db.rows # pre.rows
    /\ \E d \in deleted : \A r \in pre.rows : r.id < d

====
